---- MODULE Spec2Model ----
(***************************************************************************)
(* google_takeout_parser: the JSON decoders of parse_json.py, the event    *)
(* model of models.py, the merge command of __main__.py, and the parts of  *)
(* the package those call (merge, cache, locale tables, time and URL       *)
(* helpers), as state machines over bounded inputs.                        *)
(*                                                                         *)
(* Values.  A parsed JSON value is a tagged record: Null, JInt(n),         *)
(* JStr(s), JList(seq), JMap(f) with f a function from key strings to JSON *)
(* values.  Python's None is Null.  A datetime is its count of             *)
(* microseconds since the epoch (UTC).                                     *)
(***************************************************************************)
EXTENDS Integers, Sequences, FiniteSets, TLC

VARIABLES
    json_data,   \* decoders: the parsed root of the file being decoded
    decoder,     \* decoders: the decoder applied to it, "none" before
    out,         \* decoders: the elements the generator yielded, in order
    raised,      \* decoders: the exception that left the generator, "none" if it ended normally
    takeout_dir, \* commands: the takeout directories given, each the results its files decode to
    res,         \* commands: the list the command built
    cmd,         \* commands: the command that ran, "none" before
    file,        \* cache: the file on disk, its content and modification time
    store,       \* cache: the entry stored for the file's path, NoEntry before
    call,        \* cache: what the last get_or_compute did, NoCall before
    ev1, ev2,    \* events: two events
    keys,        \* events: their keys once read, <<>> before
    times,       \* events: what reading their dt gave, <<>> before
    locale,      \* dispatch: the locale whose table paths are matched against
    tables,      \* dispatch: whether the pattern tables were built yet
    matched,     \* dispatch: the last directory name dispatched and the area found
    paths,       \* dispatch: what the last get_paths_for_functions returned
    ncalls       \* dispatch: the calls of get_paths_for_functions so far

decodeVars == <<json_data, decoder, out, raised>>
cmdVars == <<takeout_dir, res, cmd>>
cacheVars == <<file, store, call>>
eventVars == <<ev1, ev2, keys, times>>
pathVars == <<locale, tables, matched, paths, ncalls>>
vars == <<json_data, decoder, out, raised, takeout_dir, res, cmd, file, store, call,
          ev1, ev2, keys, times, locale, tables, matched, paths, ncalls>>

-----------------------------------------------------------------------------
(* Bounds *)

\* longest list of records in a file
MaxRecords == 2
\* most takeout directories given to a command
MaxTakeouts == 2
\* most results in all the takeout directories together
MaxResults == 4
\* latest modification time of the cached file
MaxMtime == 3
\* most calls of get_paths_for_functions
MaxCalls == 3

-----------------------------------------------------------------------------
(* JSON values and the Python operations the decoders use on them *)

Null == [t |-> "null"]
JInt(n) == [t |-> "int", v |-> n]
JStr(s) == [t |-> "str", v |-> s]
JList(s) == [t |-> "list", v |-> s]
JMap(f) == [t |-> "map", v |-> f]
EmptyMap == JMap(<<>>)
EmptyList == JList(<<>>)

IsDict(x) == x.t = "map"
IsList(x) == x.t = "list"
IsStr(x) == x.t = "str"
IsNum(x) == x.t = "int"

\* k in d, for a dict d
Has(d, k) == k \in DOMAIN d.v
\* d.get(k, dflt) and d.get(k), for a dict d
GetD(d, k, dflt) == IF k \in DOMAIN d.v THEN d.v[k] ELSE dflt
Get(d, k) == GetD(d, k, Null)

RECURSIVE SetToSeq(_)
SetToSeq(S) == IF S = {} THEN <<>>
               ELSE LET e == CHOOSE e \in S : TRUE IN <<e>> \o SetToSeq(S \ {e})

\* for e in x: a list gives its elements, a dict its keys; a number or None
\* is not iterable (TypeError).  Strings are never iterated in this universe.
Iterable(x) == IsList(x) \/ IsDict(x)
PyIter(x) == IF IsList(x) THEN x.v
             ELSE [i \in 1..Cardinality(DOMAIN x.v) |-> JStr(SetToSeq(DOMAIN x.v)[i])]

\* `k in x` for any x: key of a dict, element of a list, substring of a
\* string (no string of this universe properly contains a key), TypeError
\* for a number or None.
InDefined(x) == IsDict(x) \/ IsList(x) \/ IsStr(x)
In(k, x) == CASE IsDict(x) -> k \in DOMAIN x.v
              [] IsList(x) -> \E i \in 1..Len(x.v) : x.v[i] = JStr(k)
              [] OTHER -> x = JStr(k)

\* str(x)
PyStr(x) == CASE IsStr(x) -> x.v
              [] x = Null -> "None"
              [] OTHER -> "<repr>"

\* title.startswith("Visited view-source:")
ViewSourceTitles == {"Visited view-source:https://example.com"}
StartsWithViewSource(s) == s \in ViewSourceTitles

-----------------------------------------------------------------------------
(* Results: an event, or an exception as a value *)

Err(etype) == [variant |-> "Exception", etype |-> etype]
IsErr(r) == r.variant = "Exception"
IsEvent(r) == ~IsErr(r)

\* what decoding one record does: yield one element, yield nothing, or
\* leave the generator with an exception
Yield(r) == [k |-> "yield", r |-> r]
Skip == [k |-> "skip"]
Raise(etype) == [k |-> "raise", e |-> etype]

\* a generator's run: the elements yielded, then normal end or an exception
Run(o, r) == [out |-> o, raised |-> r]

\* the loop `for x in items: <body>`, given what the body does for each
\* item in order: the elements yielded until one item raises
RECURSIVE Loop(_, _)
Loop(steps, sofar) ==
    IF steps = <<>> THEN Run(sofar, "none")
    ELSE LET s == Head(steps) IN
         CASE s.k = "raise" -> Run(sofar, s.e)
           [] s.k = "skip" -> Loop(Tail(steps), sofar)
           [] OTHER -> Loop(Tail(steps), Append(sofar, s.r))

\* [f(x) for x in xs if p(x)] as a sequence
RECURSIVE Filter(_, _)
Filter(xs, keep) ==
    IF xs = <<>> THEN <<>>
    ELSE (IF keep[1] THEN <<Head(xs)>> ELSE <<>>) \o Filter(Tail(xs), Tail(keep))

-----------------------------------------------------------------------------
(* time_utils and http_allowlist: imported by parse_json.py, their text is *)
(* not part of the sources at hand                                         *)

\* the ISO-8601 texts of this universe and the instants they denote
IsoTable == ("1970-01-01T00:00:01Z" :> 1000000)
         @@ ("1970-01-01T00:00:01.500Z" :> 1500000)
         @@ ("1970-01-01T00:00:02Z" :> 2000000)

\* parse_json_utc_date(x): an ISO-8601 string to a UTC datetime; anything
\* else raises
CanParseUtcDate(x) == IsStr(x) /\ x.v \in DOMAIN IsoTable
parse_json_utc_date(x) == IsoTable[x.v]

\* parse_datetime_millis(x): a millisecond epoch to a UTC datetime
CanParseMillis(x) == IsNum(x)
parse_datetime_millis(x) == x.v * 1000

\* convert_to_https_opt(u): None stays None, an upgradable http URL becomes
\* https, any other URL is unchanged
HttpsTable == ("http://www.google.com/search?q=x" :> "https://www.google.com/search?q=x")
           @@ ("http://maps.google.com/?q=1" :> "https://maps.google.com/?q=1")
convert_to_https(s) == IF s \in DOMAIN HttpsTable THEN HttpsTable[s] ELSE s
CanConvertUrl(u) == u = Null \/ IsStr(u)
convert_to_https_opt(u) == IF u = Null THEN Null ELSE JStr(convert_to_https(u.v))

-----------------------------------------------------------------------------
(* parse_json.py: the decoders.  Each takes the parsed root of one file    *)
(* (json.loads of its text) and is a generator of events and exceptions.   *)

\* the subtitles list built from blob.get("subtitles", [])
SubtitlesOf(raw) ==
    LET items == PyIter(raw)
        keep == [i \in 1..Len(items) |-> IsDict(items[i]) /\ Has(items[i], "name")]
        made == [i \in 1..Len(items) |->
                    IF keep[i]
                    THEN [name |-> PyStr(Get(items[i], "name")), url |-> Get(items[i], "url")]
                    ELSE Null]
    IN Filter(made, keep)

\* the details list built from blob.get("details", [])
DetailsOf(raw) ==
    LET items == PyIter(raw)
        keep == [i \in 1..Len(items) |-> IsDict(items[i]) /\ Has(items[i], "name")]
        made == [i \in 1..Len(items) |->
                    IF keep[i] THEN PyStr(Get(items[i], "name")) ELSE ""]
    IN Filter(made, keep)

\* the locationInfos list built from blob.get("locationInfos", []); every
\* item is read with .get
LocationInfosOk(raw) ==
    /\ Iterable(raw)
    /\ \A i \in 1..Len(PyIter(raw)) :
          /\ IsDict(PyIter(raw)[i])
          /\ CanConvertUrl(Get(PyIter(raw)[i], "url"))
          /\ CanConvertUrl(Get(PyIter(raw)[i], "sourceUrl"))
LocationInfosOf(raw) ==
    [i \in 1..Len(PyIter(raw)) |->
        [name |-> Get(PyIter(raw)[i], "name"),
         url |-> convert_to_https_opt(Get(PyIter(raw)[i], "url")),
         source |-> Get(PyIter(raw)[i], "source"),
         sourceUrl |-> convert_to_https_opt(Get(PyIter(raw)[i], "sourceUrl"))]]

\* the Activity(...) call of lines 76-98, on the (inner) blob
MakeActivity(header, blob, time_str, subtitles) ==
    CASE ~CanConvertUrl(Get(blob, "titleUrl")) -> Err("TypeError")
      [] ~CanParseUtcDate(time_str) -> Err("ValueError")
      [] ~Iterable(GetD(blob, "details", EmptyList)) -> Err("TypeError")
      [] ~Iterable(GetD(blob, "locationInfos", EmptyList)) -> Err("TypeError")
      [] ~LocationInfosOk(GetD(blob, "locationInfos", EmptyList)) -> Err("AttributeError")
      [] OTHER ->
           [variant |-> "Activity",
            header |-> header,
            title |-> Get(blob, "title"),
            titleUrl |-> convert_to_https_opt(Get(blob, "titleUrl")),
            description |-> Get(blob, "description"),
            time |-> parse_json_utc_date(time_str),
            subtitles |-> subtitles,
            details |-> DetailsOf(GetD(blob, "details", EmptyList)),
            locationInfos |-> LocationInfosOf(GetD(blob, "locationInfos", EmptyList)),
            products |-> GetD(blob, "products", EmptyList)]

\* the body of the loop of _parse_json_activity, lines 49-100: everything
\* is inside the try, so every failure is yielded
ActivityRecord(blob) ==
    IF ~IsDict(blob) THEN Err("AttributeError")
    ELSE IF ~Iterable(GetD(blob, "subtitles", EmptyList)) THEN Err("TypeError")
    ELSE
      LET subtitles == SubtitlesOf(GetD(blob, "subtitles", EmptyList))
          old_format == Has(blob, "snippet")
      IN IF old_format
         THEN LET snippet == Get(blob, "snippet") IN
              IF ~IsDict(snippet) THEN Err("AttributeError")
              ELSE MakeActivity(JStr("YouTube"), snippet, Get(snippet, "publishedAt"), subtitles)
         ELSE LET _header == Get(blob, "header") IN
              IF _header # Null
              THEN MakeActivity(_header, blob, Get(blob, "time"), subtitles)
              ELSE IF ~IsStr(Get(blob, "title")) THEN Err("AttributeError")
              ELSE IF ~StartsWithViewSource(Get(blob, "title").v) THEN Err("AssertionError")
              ELSE MakeActivity(JStr("Chrome"), blob, Get(blob, "time"), subtitles)

\* a decoder that takes the schema of the first record for the whole file:
\* a map record of the other shape fails on the .get of a None
ActivityByFileSchema(root) ==
    LET first == IF ~IsList(root) THEN <<Err("RuntimeError")>> ELSE <<>>
        items == PyIter(root)
        other(i) == /\ IsDict(items[1]) /\ IsDict(items[i])
                    /\ Has(items[1], "snippet") # Has(items[i], "snippet")
    IN IF ~Iterable(root) THEN Run(first, "TypeError")
       ELSE Loop([i \in 1..Len(items) |->
                     Yield(IF other(i) THEN Err("AttributeError")
                           ELSE ActivityRecord(items[i]))], first)

\* lines 44-100.  A root that is not a list yields a RuntimeError, and the
\* loop over the root runs all the same.
_parse_json_activity(root) ==
    LET first == IF ~IsList(root) THEN <<Err("RuntimeError")>> ELSE <<>> IN
    IF ~Iterable(root) THEN Run(first, "TypeError")
    ELSE Loop([i \in 1..Len(PyIter(root)) |-> Yield(ActivityRecord(PyIter(root)[i]))], first)

\* x.get(k, {}) where x is a dict: the value, which the next .get needs to
\* be a dict
Sub(x, k) == GetD(x, k, EmptyMap)

\* the body of the loop of _parse_likes, lines 108-118
LikesRecord(jlike) ==
    CASE ~IsDict(jlike) -> Err("AttributeError")
      [] ~IsDict(Sub(jlike, "snippet")) -> Err("AttributeError")
      [] ~IsDict(Sub(jlike, "contentDetails")) -> Err("AttributeError")
      [] ~CanParseUtcDate(Get(Sub(jlike, "snippet"), "publishedAt")) -> Err("ValueError")
      [] OTHER ->
           [variant |-> "LikedYoutubeVideo",
            title |-> Get(Sub(jlike, "snippet"), "title"),
            desc |-> Get(Sub(jlike, "snippet"), "description"),
            link |-> <<"https://youtube.com/watch?v=",
                       PyStr(Get(Sub(jlike, "contentDetails"), "videoId"))>>,
            dt |-> parse_json_utc_date(Get(Sub(jlike, "snippet"), "publishedAt"))]

\* lines 103-118
_parse_likes(root) ==
    LET first == IF ~IsList(root) THEN <<Err("RuntimeError")>> ELSE <<>> IN
    IF ~Iterable(root) THEN Run(first, "TypeError")
    ELSE Loop([i \in 1..Len(PyIter(root)) |-> Yield(LikesRecord(PyIter(root)[i]))], first)

\* the body of the loop of _parse_app_installs, lines 126-136
AppInstallRecord(japp) ==
    CASE ~IsDict(japp) -> Err("AttributeError")
      [] ~IsDict(Sub(japp, "install")) -> Err("AttributeError")
      [] ~IsDict(Sub(Sub(japp, "install"), "doc")) -> Err("AttributeError")
      [] ~IsDict(Sub(Sub(japp, "install"), "deviceAttribute")) -> Err("AttributeError")
      [] ~CanParseUtcDate(Get(Sub(japp, "install"), "lastUpdateTime")) -> Err("ValueError")
      [] ~CanParseUtcDate(Get(Sub(japp, "install"), "firstInstallationTime")) -> Err("ValueError")
      [] OTHER ->
           LET install == Sub(japp, "install") IN
           [variant |-> "PlayStoreAppInstall",
            title |-> Get(Sub(install, "doc"), "title"),
            deviceName |-> Get(Sub(install, "deviceAttribute"), "deviceDisplayName"),
            deviceCarrier |-> Get(Sub(install, "deviceAttribute"), "carrier"),
            deviceManufacturer |-> Get(Sub(install, "deviceAttribute"), "manufacturer"),
            lastUpdateTime |-> parse_json_utc_date(Get(install, "lastUpdateTime")),
            firstInstallationTime |-> parse_json_utc_date(Get(install, "firstInstallationTime"))]

\* lines 121-136
_parse_app_installs(root) ==
    LET first == IF ~IsList(root) THEN <<Err("RuntimeError")>> ELSE <<>> IN
    IF ~Iterable(root) THEN Run(first, "TypeError")
    ELSE Loop([i \in 1..Len(PyIter(root)) |-> Yield(AppInstallRecord(PyIter(root)[i]))], first)

\* a division by 10^6 in place of 10^7
DivE6(n) == [num |-> n, den |-> 1000000]

\* a float, as the fraction num/den
Float(n) == [num |-> n, den |-> 1]
DivE7(n) == [num |-> n, den |-> 10000000]

\* a datetime with a time zone is the instant it denotes, in microseconds
\* after 1970-01-01T00:00:00 UTC; a naive datetime is its wall clock, in
\* microseconds after 1970-01-01T00:00:00 on that clock

\* n / d (true division): the float, as a fraction
TrueDiv(n, d) == [num |-> n, den |-> d]

\* datetime.utcfromtimestamp(t): the naive datetime the UTC wall clock shows
\* t seconds after the epoch.  Exact when t.den divides 10^6, as it does
\* here.
utcfromtimestamp(t) == t.num * (1000000 \div t.den)

\* naive.replace(tzinfo=tz): the instant at which the wall clock of a zone
\* utcoffset microseconds east of UTC shows naive; timezone.utc has offset 0
replace_tzinfo(naive, utcoffset) == naive - utcoffset

\* _parse_timestamp_key with the ISO key tried first
TimestampIsoFirst(d, key, keyMs) ==
    IF Has(d, key) /\ CanParseUtcDate(d.v[key]) THEN parse_json_utc_date(d.v[key])
    ELSE parse_datetime_millis(d.v[keyMs])

\* _parse_timestamp_key(d, key), lines 139-144: "ok" with the datetime, or
\* the exception it raises
TimestampKeyError(d, key, keyMs) ==
    CASE ~InDefined(d) -> "TypeError"
      [] In(keyMs, d) /\ ~IsDict(d) -> "TypeError"
      [] In(keyMs, d) /\ ~CanParseMillis(d.v[keyMs]) -> "ValueError"
      [] In(keyMs, d) -> "ok"
      [] ~IsDict(d) -> "TypeError"
      [] ~Has(d, key) -> "KeyError"
      [] ~CanParseUtcDate(d.v[key]) -> "ValueError"
      [] OTHER -> "ok"
_parse_timestamp_key(d, key, keyMs) ==
    IF Has(d, keyMs) THEN parse_datetime_millis(d.v[keyMs])
    ELSE parse_json_utc_date(d.v[key])

\* the try of _parse_location_history, lines 157-167, for a dict loc
LocationRecord(loc) ==
    CASE ~IsNum(Get(loc, "longitudeE7")) -> Err("TypeError")
      [] ~IsNum(Get(loc, "latitudeE7")) -> Err("TypeError")
      [] TimestampKeyError(loc, "timestamp", "timestampMs") # "ok" ->
           Err(TimestampKeyError(loc, "timestamp", "timestampMs"))
      [] Get(loc, "accuracy") # Null /\ ~IsNum(Get(loc, "accuracy")) -> Err("ValueError")
      [] Get(loc, "deviceTag") # Null /\ ~IsNum(Get(loc, "deviceTag")) -> Err("ValueError")
      [] OTHER ->
           [variant |-> "Location",
            lng |-> DivE7(Get(loc, "longitudeE7").v),
            lat |-> DivE7(Get(loc, "latitudeE7").v),
            dt |-> _parse_timestamp_key(loc, "timestamp", "timestampMs"),
            accuracy |-> IF Get(loc, "accuracy") = Null THEN Null
                         ELSE Float(Get(loc, "accuracy").v),
            deviceTag |-> IF Get(loc, "deviceTag") = Null THEN Null
                          ELSE Get(loc, "deviceTag").v,
            source |-> Get(loc, "source")]

\* the body of the loop of _parse_location_history, lines 154-167: the
\* three loc.get calls come before the try
LocationStep(loc) ==
    IF ~IsDict(loc) THEN Raise("AttributeError") ELSE Yield(LocationRecord(loc))

\* the items of root.get(key, []), lines 153 and 260
ItemsOf(root, key) == PyIter(GetD(root, key, EmptyList))

\* a generator that tests a key of the root, then reads root.get(key, [])
\* and loops over it: lines 150-153 and 257-260.  steps holds the outcome of
\* the loop body on each item, and is read only when the loop is entered.
KeyedRoot(root, key, steps, first) ==
    IF ~InDefined(root) THEN Run(first, "TypeError")
    ELSE LET sofar == IF ~In(key, root) THEN Append(first, Err("RuntimeError")) ELSE first IN
         CASE ~IsDict(root) -> Run(sofar, "AttributeError")
           [] ~Iterable(GetD(root, key, EmptyList)) -> Run(sofar, "TypeError")
           [] OTHER -> Loop(steps, sofar)

\* lines 147-167
_parse_location_history(root) ==
    KeyedRoot(root, "locations",
              [i \in 1..Len(ItemsOf(root, "locations")) |->
                  LocationStep(ItemsOf(root, "locations")[i])],
              <<>>)

\* the body of the loop of _parse_chrome_history, lines 261-272
ChromeRecord(item) ==
    CASE ~IsDict(item) -> Err("AttributeError")
      [] ~IsNum(Get(item, "time_usec")) -> Err("TypeError")
      [] OTHER ->
           [variant |-> "ChromeHistory",
            title |-> Get(item, "title"),
            url |-> Get(item, "url"),
            dt |-> replace_tzinfo(
                       utcfromtimestamp(TrueDiv(Get(item, "time_usec").v, 1000000)), 0),
            pageTransition |-> IF Has(item, "page_transition")
                               THEN Get(item, "page_transition") ELSE Null]

ChromeStep(item) == Yield(ChromeRecord(item))

\* lines 256-272
_parse_chrome_history(root) ==
    KeyedRoot(root, "Browser History",
              [i \in 1..Len(ItemsOf(root, "Browser History")) |->
                  ChromeStep(ItemsOf(root, "Browser History")[i])],
              <<>>)

\* models.py, CandidateLocation.from_dict, lines 226-243: "ok", or the
\* exception it raises
FromDictError(data) ==
    CASE ~IsDict(data) -> "AttributeError"
      [] Get(data, "placeId") = Null /\ Get(data, "semanticType") = Null -> "AssertionError"
      [] ~Has(data, "latitudeE7") -> "KeyError"
      [] ~IsNum(data.v["latitudeE7"]) -> "TypeError"
      [] ~Has(data, "longitudeE7") -> "KeyError"
      [] ~IsNum(data.v["longitudeE7"]) -> "TypeError"
      [] ~IsDict(Sub(data, "sourceInfo")) -> "AttributeError"
      [] OTHER -> "ok"
from_dict(data) ==
    [address |-> Get(data, "address"),
     name |-> Get(data, "name"),
     placeId |-> Get(data, "placeId"),
     semanticType |-> Get(data, "semanticType"),
     locationConfidence |-> Get(data, "locationConfidence"),
     lat |-> DivE7(data.v["latitudeE7"].v),
     lng |-> DivE7(data.v["longitudeE7"].v),
     sourceInfoDeviceTag |-> Get(Sub(data, "sourceInfo"), "deviceTag")]

\* lines 170-175
_sem_required_keys == <<"location", "duration">>
_sem_required_location_keys == <<"placeId", "latitudeE7", "longitudeE7">>

\* _check_required_keys(d, required_keys), lines 178-184, for a d that `in`
\* accepts: the first key that is missing, or Null
_check_required_keys(d, required_keys) ==
    IF \A i \in 1..Len(required_keys) : In(required_keys[i], d) THEN Null
    ELSE JStr(required_keys[CHOOSE i \in 1..Len(required_keys) :
                  /\ ~In(required_keys[i], d)
                  /\ \A j \in 1..(i - 1) : In(required_keys[j], d)])

\* the first exception among the from_dict calls on otherCandidateLocations
OtherCandidatesError(items) ==
    IF \A i \in 1..Len(items) : FromDictError(items[i]) = "ok" THEN "ok"
    ELSE FromDictError(items[CHOOSE i \in 1..Len(items) :
             /\ FromDictError(items[i]) # "ok"
             /\ \A j \in 1..(i - 1) : FromDictError(items[j]) = "ok"])

\* float(placeVisit.get(k)) / 1e7 if k in placeVisit else None
CenterOf(placeVisit, k) ==
    IF Has(placeVisit, k) THEN DivE7(Get(placeVisit, k).v) ELSE Null

\* what an exception caught at lines 249-253 is yielded as
Caught(etype) == IF etype = "KeyError" THEN Err("RuntimeError") ELSE Err(etype)

\* the try of _parse_semantic_location_history, lines 203-253, once the
\* required keys of placeVisit were found
PlaceVisitTry(placeVisit) ==
    IF ~IsDict(placeVisit) THEN Yield(Caught("AttributeError"))
    ELSE LET location_json == Get(placeVisit, "location")
             duration == Get(placeVisit, "duration")
             others == GetD(placeVisit, "otherCandidateLocations", EmptyList)
         IN
         CASE ~InDefined(location_json) -> Yield(Caught("TypeError"))
           [] _check_required_keys(location_json, _sem_required_location_keys) # Null -> Skip
           [] FromDictError(location_json) # "ok" -> Yield(Caught(FromDictError(location_json)))
           [] from_dict(location_json).placeId = Null -> Yield(Caught("AssertionError"))
           [] ~Iterable(others) -> Yield(Caught("TypeError"))
           [] OtherCandidatesError(PyIter(others)) # "ok" ->
                Yield(Caught(OtherCandidatesError(PyIter(others))))
           [] Has(placeVisit, "centerLatE7") /\ ~IsNum(Get(placeVisit, "centerLatE7")) ->
                Yield(Caught("TypeError"))
           [] Has(placeVisit, "centerLngE7") /\ ~IsNum(Get(placeVisit, "centerLngE7")) ->
                Yield(Caught("TypeError"))
           [] TimestampKeyError(duration, "startTimestamp", "startTimestampMs") # "ok" ->
                Yield(Caught(TimestampKeyError(duration, "startTimestamp", "startTimestampMs")))
           [] TimestampKeyError(duration, "endTimestamp", "endTimestampMs") # "ok" ->
                Yield(Caught(TimestampKeyError(duration, "endTimestamp", "endTimestampMs")))
           [] OTHER ->
                LET location == from_dict(location_json) IN
                Yield([variant |-> "PlaceVisit",
                       name |-> location.name,
                       address |-> location.address,
                       otherCandidateLocations |->
                           [i \in 1..Len(PyIter(others)) |-> from_dict(PyIter(others)[i])],
                       sourceInfoDeviceTag |-> location.sourceInfoDeviceTag,
                       placeConfidence |-> Get(placeVisit, "placeConfidence"),
                       placeVisitImportance |-> Get(placeVisit, "placeVisitImportance"),
                       placeVisitType |-> Get(placeVisit, "placeVisitType"),
                       visitConfidence |-> Get(placeVisit, "visitConfidence"),
                       editConfirmationStatus |-> Get(placeVisit, "editConfirmationStatus"),
                       placeId |-> location.placeId,
                       lng |-> location.lng,
                       lat |-> location.lat,
                       centerLat |-> CenterOf(placeVisit, "centerLatE7"),
                       centerLng |-> CenterOf(placeVisit, "centerLngE7"),
                       startTime |-> _parse_timestamp_key(duration, "startTimestamp", "startTimestampMs"),
                       endTime |-> _parse_timestamp_key(duration, "endTimestamp", "endTimestampMs"),
                       locationConfidence |-> location.locationConfidence])

\* the body of the loop of _parse_semantic_location_history, lines 195-253
TimelineStep(timelineObject) ==
    CASE ~InDefined(timelineObject) -> Raise("TypeError")
      [] ~In("placeVisit", timelineObject) -> Skip
      [] ~IsDict(timelineObject) -> Raise("AttributeError")
      [] ~InDefined(Get(timelineObject, "placeVisit")) -> Raise("TypeError")
      [] _check_required_keys(Get(timelineObject, "placeVisit"), _sem_required_keys) # Null ->
           Yield(Err("RuntimeError"))
      [] OTHER -> PlaceVisitTry(Get(timelineObject, "placeVisit"))

\* lines 187-253.  A root that is not a dict yields a RuntimeError, and the
\* key test and the loop run all the same.
_parse_semantic_location_history(root) ==
    KeyedRoot(root, "timelineObjects",
              [i \in 1..Len(ItemsOf(root, "timelineObjects")) |->
                  TimelineStep(ItemsOf(root, "timelineObjects")[i])],
              IF ~IsDict(root) THEN <<Err("RuntimeError")>> ELSE <<>>)

-----------------------------------------------------------------------------
(* The files decoded: roots of every JSON type, and lists of up to         *)
(* MaxRecords records, well-formed and not                                 *)

T1 == JStr("1970-01-01T00:00:01Z")
T15 == JStr("1970-01-01T00:00:01.500Z")
T2 == JStr("1970-01-01T00:00:02Z")

\* records that are not maps
JunkRecords == {Null, JInt(7), JStr("locations")}

ActivityRecords ==
    { JMap([header |-> JStr("Search"), title |-> JStr("Searched for x"), time |-> T1,
            titleUrl |-> JStr("http://www.google.com/search?q=x")]),
      JMap([header |-> JStr("Maps"), title |-> JStr("Viewed area"), time |-> T2,
            subtitles |-> JList(<<JMap([name |-> JStr("n"), url |-> JStr("http://maps.google.com/?q=1")])>>),
            locationInfos |-> JList(<<JMap([name |-> JStr("At this area"),
                                            url |-> JStr("http://maps.google.com/?q=1")])>>)]),
      JMap([snippet |-> JMap([title |-> JStr("Watched v"), publishedAt |-> T15])]),
      JMap([header |-> JStr("Search"), title |-> JStr("Searched for x")]),
      JMap([header |-> JStr("Search"), time |-> T1]),
      JMap([title |-> JStr("Visited view-source:https://example.com"), time |-> T1]),
      JMap([time |-> T1]),
      JMap([snippet |-> Null]),
      JMap([snippet |-> JMap([title |-> JStr("Watched w"), publishedAt |-> T2,
                              description |-> JStr("d"),
                              subtitles |-> JList(<<JMap([name |-> JStr("inner")])>>)]),
            subtitles |-> JList(<<JMap([name |-> JStr("outer")])>>)]) }

LikesRecords ==
    { JMap([snippet |-> JMap([title |-> JStr("v"), description |-> JStr("d"), publishedAt |-> T1]),
            contentDetails |-> JMap([videoId |-> JStr("abc")])]),
      JMap([snippet |-> JMap([title |-> JStr("w"), publishedAt |-> T2])]),
      JMap([contentDetails |-> JMap([videoId |-> JStr("abc")])]),
      JMap([snippet |-> Null]) }

AppInstallRecords ==
    { JMap([install |-> JMap([doc |-> JMap([title |-> JStr("app")]),
                              deviceAttribute |-> JMap([carrier |-> JStr("c")]),
                              lastUpdateTime |-> T2, firstInstallationTime |-> T1])]),
      JMap([install |-> JMap([doc |-> JMap([title |-> JStr("app")]),
                              firstInstallationTime |-> T1])]),
      JMap([install |-> JMap([doc |-> Null, lastUpdateTime |-> T2,
                              firstInstallationTime |-> T1])]),
      EmptyMap }

LocationRecords ==
    { JMap([latitudeE7 |-> JInt(377749000), longitudeE7 |-> JInt(-1224194000),
            timestampMs |-> JInt(1500), accuracy |-> JInt(20)]),
      JMap([latitudeE7 |-> JInt(-10000000), longitudeE7 |-> JInt(20000000),
            timestamp |-> T2, deviceTag |-> JInt(5), source |-> JStr("WIFI")]),
      JMap([latitudeE7 |-> JInt(377749000), timestamp |-> T1]),
      JMap([latitudeE7 |-> JInt(377749000), longitudeE7 |-> JInt(-1224194000)]),
      JMap([latitudeE7 |-> JInt(377749000), longitudeE7 |-> JInt(-1224194000),
            timestampMs |-> JInt(1500), timestamp |-> T2]) }

GoodLocation == JMap([placeId |-> JStr("p1"), latitudeE7 |-> JInt(377749000),
                      longitudeE7 |-> JInt(-1224194000), name |-> JStr("home")])
GoodDuration == JMap([startTimestamp |-> T1, endTimestamp |-> T2])
MsDuration == JMap([startTimestampMs |-> JInt(1000), endTimestampMs |-> JInt(2000)])

PlaceVisits ==
    { JMap([location |-> GoodLocation, duration |-> GoodDuration,
            centerLatE7 |-> JInt(377750000), centerLngE7 |-> JInt(-1224190000),
            visitConfidence |-> JInt(90)]),
      JMap([location |-> GoodLocation, duration |-> MsDuration,
            otherCandidateLocations |->
                JList(<<JMap([semanticType |-> JStr("TYPE_HOME"),
                              latitudeE7 |-> JInt(-10000000), longitudeE7 |-> JInt(20000000)])>>)]),
      JMap([duration |-> GoodDuration]),
      JMap([location |-> GoodLocation]),
      JMap([location |-> JMap([placeId |-> JStr("p1"), longitudeE7 |-> JInt(-1224194000)]),
            duration |-> GoodDuration]),
      JMap([location |-> GoodLocation, duration |-> JMap([startTimestamp |-> T1])]),
      JMap([location |-> Null, duration |-> GoodDuration]),
      Null }

TimelineObjects ==
    { JMap([placeVisit |-> pv]) : pv \in PlaceVisits }
    \cup { JMap([activitySegment |-> EmptyMap]) }

ChromeRecords ==
    { JMap([title |-> JStr("t"), url |-> JStr("http://www.google.com/search?q=x"),
            time_usec |-> JInt(1500000),
            page_transition |-> JStr("LINK")]),
      JMap([title |-> JStr("u"), url |-> JStr("https://example.org/"), time_usec |-> JInt(2000000)]),
      JMap([title |-> JStr("t"), url |-> JStr("http://example.com/")]),
      JMap([time_usec |-> Null]) }

\* the lists of at most MaxRecords elements of S
ListsOf(S) == UNION { [1..n -> S] : n \in 0..MaxRecords }

\* roots whose shape no decoder expects, or only some
OddRoots ==
    { Null, JInt(0), JStr("locations"), EmptyMap, JMap([a |-> Null, b |-> JInt(1)]),
      JList(<<JStr("locations")>>), JList(<<JStr("timelineObjects")>>),
      JMap([locations |-> Null]), JMap([timelineObjects |-> EmptyMap]),
      JMap("Browser History" :> JInt(1)) }

Files ==
    OddRoots
    \cup { JList(l) : l \in ListsOf(ActivityRecords \cup JunkRecords) }
    \cup { JList(l) : l \in ListsOf(LikesRecords \cup JunkRecords) }
    \cup { JList(l) : l \in ListsOf(AppInstallRecords \cup JunkRecords) }
    \cup { JMap([locations |-> JList(l)]) : l \in ListsOf(LocationRecords \cup JunkRecords) }
    \cup { JMap([timelineObjects |-> JList(l)]) : l \in ListsOf(TimelineObjects \cup JunkRecords) }
    \cup { JMap("Browser History" :> JList(l)) : l \in ListsOf(ChromeRecords \cup JunkRecords) }

-----------------------------------------------------------------------------
(* Decoding one file: the caller chooses the decoder (path dispatch) and   *)
(* consumes the generator to its end                                       *)

IdleDecode ==
    /\ json_data = Null
    /\ decoder = "none"
    /\ out = <<>>
    /\ raised = "none"

IdleCmd ==
    /\ takeout_dir = <<>>
    /\ res = <<>>
    /\ cmd = "none"

NoEntry == [identity |-> <<>>, results |-> <<>>]
NoCall == [computed |-> FALSE, returned |-> <<>>, identity |-> <<>>, prior |-> NoEntry,
           content |-> Null]

IdleCache ==
    /\ file = [content |-> Null, mtime |-> 0]
    /\ store = NoEntry
    /\ call = NoCall

IdleEvents ==
    /\ ev1 = Null
    /\ ev2 = Null
    /\ keys = <<>>
    /\ times = <<>>

IdlePaths ==
    /\ locale = "EN"
    /\ tables = "unbuilt"
    /\ matched = <<>>
    /\ paths = <<>>
    /\ ncalls = 0

InitDecode ==
    /\ json_data \in Files
    /\ decoder = "none"
    /\ out = <<>>
    /\ raised = "none"
    /\ IdleCmd
    /\ IdleCache
    /\ IdleEvents
    /\ IdlePaths

Consume(name, run) ==
    /\ decoder = "none"
    /\ decoder' = name
    /\ out' = run.out
    /\ raised' = run.raised
    /\ UNCHANGED <<json_data, cmdVars, cacheVars, eventVars, pathVars>>

ParseJsonActivity == Consume("_parse_json_activity", _parse_json_activity(json_data))
ParseLikes == Consume("_parse_likes", _parse_likes(json_data))
ParseAppInstalls == Consume("_parse_app_installs", _parse_app_installs(json_data))
ParseLocationHistory == Consume("_parse_location_history", _parse_location_history(json_data))
ParseSemanticLocationHistory ==
    Consume("_parse_semantic_location_history", _parse_semantic_location_history(json_data))
ParseChromeHistory == Consume("_parse_chrome_history", _parse_chrome_history(json_data))

NextDecode ==
    \/ ParseJsonActivity
    \/ ParseLikes
    \/ ParseAppInstalls
    \/ ParseLocationHistory
    \/ ParseSemanticLocationHistory
    \/ ParseChromeHistory

SpecDecode == InitDecode /\ [][NextDecode]_vars

-----------------------------------------------------------------------------
(* models.py: the key and dt of each event *)

\* int(dt.timestamp()): the whole seconds of a datetime, truncated toward 0
IntTimestamp(us) == IF us >= 0 THEN us \div 1000000 ELSE -((-us) \div 1000000)

\* key with Activity's reading title and time only
KeyWithoutHeader(e) ==
    CASE e.variant = "Activity" -> <<e.title, IntTimestamp(e.time)>>
      [] e.variant = "PlayStoreAppInstall" -> IntTimestamp(e.lastUpdateTime)
      [] e.variant = "Location" -> <<e.lat, e.lng, e.accuracy, IntTimestamp(e.dt)>>
      [] e.variant = "PlaceVisit" ->
           <<e.lat, e.lng, IntTimestamp(e.startTime), e.visitConfidence>>
      [] e.variant = "ChromeHistory" -> <<e.url, IntTimestamp(e.dt)>>
      [] e.variant = "Keep" -> IntTimestamp(e.created_dt)
      [] OTHER -> IntTimestamp(e.dt)

\* the key property of each dataclass
key(e) ==
    CASE e.variant = "Activity" -> <<e.header, e.title, IntTimestamp(e.time)>>
      [] e.variant = "PlayStoreAppInstall" -> IntTimestamp(e.lastUpdateTime)
      [] e.variant = "Location" -> <<e.lat, e.lng, e.accuracy, IntTimestamp(e.dt)>>
      [] e.variant = "PlaceVisit" ->
           <<e.lat, e.lng, IntTimestamp(e.startTime), e.visitConfidence>>
      [] e.variant = "ChromeHistory" -> <<e.url, IntTimestamp(e.dt)>>
      [] e.variant = "Keep" -> IntTimestamp(e.created_dt)
      [] OTHER -> IntTimestamp(e.dt)

\* the union DEFAULT_MODEL_TYPE, lines 311-322
Variants ==
    {"Activity", "LikedYoutubeVideo", "PlayStoreAppInstall", "Location", "ChromeHistory",
     "YoutubeComment", "CSVYoutubeComment", "CSVYoutubeLiveChat", "PlaceVisit", "Keep"}

\* the fields and properties of each dataclass
Attributes(variant) ==
    CASE variant = "Activity" ->
           {"header", "title", "time", "description", "titleUrl", "subtitles", "details",
            "locationInfos", "products", "dt", "products_desc", "key"}
      [] variant = "YoutubeComment" -> {"content", "dt", "urls", "key"}
      [] variant = "CSVYoutubeComment" ->
           {"commentId", "channelId", "dt", "price", "parentCommentId", "videoId",
            "contentJSON", "url", "video_url", "key"}
      [] variant = "CSVYoutubeLiveChat" ->
           {"liveChatId", "channelId", "dt", "price", "videoId", "contentJSON", "url",
            "video_url", "key"}
      [] variant = "LikedYoutubeVideo" -> {"title", "desc", "link", "dt", "key"}
      [] variant = "PlayStoreAppInstall" ->
           {"title", "lastUpdateTime", "firstInstallationTime", "deviceName",
            "deviceCarrier", "deviceManufacturer", "dt", "key"}
      [] variant = "Location" ->
           {"lat", "lng", "accuracy", "deviceTag", "source", "dt", "key"}
      [] variant = "PlaceVisit" ->
           {"lat", "lng", "centerLat", "centerLng", "address", "name", "locationConfidence",
            "placeId", "startTime", "endTime", "sourceInfoDeviceTag",
            "otherCandidateLocations", "placeConfidence", "placeVisitType",
            "visitConfidence", "editConfirmationStatus", "placeVisitImportance", "dt", "key"}
      [] variant = "ChromeHistory" -> {"title", "url", "dt", "pageTransition", "key"}
      [] OTHER ->
           {"title", "updated_dt", "created_dt", "listContent", "textContent",
            "textContentHtml", "color", "annotations", "isTrashed", "isPinned",
            "isArchived", "key"}

\* reading event.name: the attribute, or AttributeError
HasAttr(e, name) == name \in Attributes(e.variant)
dt(e) ==
    CASE e.variant = "Activity" -> e.time
      [] e.variant = "PlayStoreAppInstall" -> e.lastUpdateTime
      [] e.variant = "PlaceVisit" -> e.startTime
      [] OTHER -> e.dt

\* two events that merging takes for the same one
SameEvent(a, b) == a.variant = b.variant /\ key(a) = key(b)

-----------------------------------------------------------------------------
(* path_dispatch and merge: imported by __main__.py, their text is not     *)
(* part of the sources at hand; modelled from sections 4.5 and 7 of the    *)
(* specification                                                           *)

RECURSIVE Chain(_)
Chain(streams) == IF streams = <<>> THEN <<>> ELSE Head(streams) \o Chain(Tail(streams))

\* TakeoutParser(p, error_policy).parse(...): the results of the files of
\* takeout p; the "drop" policy leaves the exceptions out
TakeoutParserParse(results, error_policy) ==
    IF error_policy = "drop" THEN SelectSeq(results, IsEvent) ELSE results

\* one representative per (variant, key): a later event takes the place of
\* the earlier one it equals
RECURSIVE Dedup(_, _)
Dedup(events, kept) ==
    IF events = <<>> THEN kept
    ELSE LET e == Head(events) IN
         IF \E i \in 1..Len(kept) : SameEvent(kept[i], e)
         THEN Dedup(Tail(events),
                    [i \in 1..Len(kept) |-> IF SameEvent(kept[i], e) THEN e ELSE kept[i]])
         ELSE Dedup(Tail(events), Append(kept, e))

\* a stable sort by dt: each event goes behind those not later than it
RECURSIVE SortByDt(_, _)
SortByDt(events, sorted) ==
    IF events = <<>> THEN sorted
    ELSE LET e == Head(events)
             n == Cardinality({i \in 1..Len(sorted) : dt(sorted[i]) <= dt(e)})
         IN SortByDt(Tail(events),
                     SubSeq(sorted, 1, n) \o <<e>> \o SubSeq(sorted, n + 1, Len(sorted)))

\* merge_events(*sources): every exception, then the surviving events by
\* time
merge_events(sources) ==
    LET all == Chain(sources) IN
    SelectSeq(all, IsErr) \o SortByDt(Dedup(SelectSeq(all, IsEvent), <<>>), <<>>)

\* cached_merge_takeouts(dirs): the same merge of the takeouts at dirs,
\* its result kept in the cache
cached_merge_takeouts(dirs) ==
    merge_events([i \in 1..Len(dirs) |-> TakeoutParserParse(dirs[i], "yield")])

-----------------------------------------------------------------------------
(* __main__.py: the parse and merge commands *)

\* the results in the takeout directories: events the decoders build, and
\* exceptions
ResultUniverse ==
    { ActivityRecord(JMap([header |-> JStr("Search"), title |-> JStr("Searched for x"),
                           time |-> T1])),
      ActivityRecord(JMap([header |-> JStr("Search"), title |-> JStr("Searched for x"),
                           time |-> T15, description |-> JStr("again")])),
      LikesRecord(JMap([snippet |-> JMap([title |-> JStr("w"), publishedAt |-> T2])])),
      AppInstallRecord(JMap([install |-> JMap([doc |-> JMap([title |-> JStr("app")]),
                                               lastUpdateTime |-> T2,
                                               firstInstallationTime |-> T1])])),
      Err("RuntimeError") }

InitCmd ==
    /\ IdleDecode
    /\ IdleCmd
    /\ IdleCache
    /\ IdleEvents
    /\ IdlePaths

\* one more takeout directory on the command line
AddTakeout ==
    /\ cmd = "none"
    /\ Len(takeout_dir) < MaxTakeouts
    /\ takeout_dir' = Append(takeout_dir, <<>>)
    /\ UNCHANGED <<res, cmd, decodeVars, cacheVars, eventVars, pathVars>>

\* one more result in the last takeout directory
AddResult ==
    /\ cmd = "none"
    /\ takeout_dir # <<>>
    /\ Len(Chain(takeout_dir)) < MaxResults
    /\ \E r \in ResultUniverse :
          takeout_dir' = [takeout_dir EXCEPT ![Len(takeout_dir)] = Append(@, r)]
    /\ UNCHANGED <<res, cmd, decodeVars, cacheVars, eventVars, pathVars>>

\* the sources in the opposite order
MergeSourcesReversed(dirs) ==
    [i \in 1..Len(dirs) |-> TakeoutParserParse(dirs[Len(dirs) + 1 - i], "yield")]

\* the sources with the error policy of the parse command
MergeSourcesDropping(dirs) == [i \in 1..Len(dirs) |-> TakeoutParserParse(dirs[i], "drop")]

\* line 95: the sources, one per TAKEOUT_DIR in the order given
MergeSources(dirs) == [i \in 1..Len(dirs) |-> TakeoutParserParse(dirs[i], "yield")]

\* merge, lines 84-96 (TAKEOUT_DIR is required: there is at least one)
merge ==
    /\ cmd = "none"
    /\ takeout_dir # <<>>
    /\ \E cache \in BOOLEAN :
          res' = IF cache THEN cached_merge_takeouts(takeout_dir)
                 ELSE merge_events(MergeSources(takeout_dir))
    /\ cmd' = "merge"
    /\ UNCHANGED <<takeout_dir, decodeVars, cacheVars, eventVars, pathVars>>

\* parse, lines 71-81: one TAKEOUT_DIR, exceptions dropped
parse ==
    /\ cmd = "none"
    /\ Len(takeout_dir) = 1
    /\ res' = TakeoutParserParse(takeout_dir[1], "drop")
    /\ cmd' = "parse"
    /\ UNCHANGED <<takeout_dir, decodeVars, cacheVars, eventVars, pathVars>>

NextCmd == AddTakeout \/ AddResult \/ merge \/ parse

SpecCmd == InitCmd /\ [][NextCmd]_vars

-----------------------------------------------------------------------------
(* cache: used by TakeoutParser.parse(cache=True), which __main__.py calls *)
(* at line 80; its text is not part of the sources at hand; modelled from  *)
(* section 4.4 of the specification, for one file                          *)

CachedPath == "Takeout/My Activity/Search/MyActivity.json"

\* the contents the file takes: activity files, two of them of one size
Contents ==
    { JList(<<JMap([header |-> JStr("Search"), title |-> JStr("Searched for x"), time |-> T1])>>),
      JList(<<JMap([header |-> JStr("Search"), title |-> JStr("Searched for y"), time |-> T2])>>),
      JList(<<JMap([header |-> JStr("Search"), title |-> JStr("Searched for x"), time |-> T1]),
              JMap([header |-> JStr("Search")])>>) }
SizeOf(content) == Len(content.v)

\* the file's identity: path, size, modification time
IdentityOf(f) == <<CachedPath, SizeOf(f.content), f.mtime>>

\* compute_fn: decoding the file as it is now
compute_fn(f) == _parse_json_activity(f.content).out

\* get_or_compute that looks the entry up by path alone
GetOrComputeByPath(f, entry) ==
    IF entry # NoEntry
    THEN [computed |-> FALSE, returned |-> entry.results, entry |-> entry]
    ELSE [computed |-> TRUE, returned |-> compute_fn(f),
          entry |-> [identity |-> IdentityOf(f), results |-> compute_fn(f)]]

\* get_or_compute(file_identity, compute_fn), given the stored entry: what
\* it returns, whether it computed, and the entry it leaves
GetOrCompute(f, entry) ==
    IF entry # NoEntry /\ entry.identity = IdentityOf(f)
    THEN [computed |-> FALSE, returned |-> entry.results, entry |-> entry]
    ELSE [computed |-> TRUE, returned |-> compute_fn(f),
          entry |-> [identity |-> IdentityOf(f), results |-> compute_fn(f)]]

InitCache ==
    /\ IdleDecode
    /\ IdleCmd
    /\ file \in [content : Contents, mtime : {0}]
    /\ store = NoEntry
    /\ call = NoCall
    /\ IdleEvents
    /\ IdlePaths

\* the file is rewritten: its modification time moves on
WriteFile ==
    /\ file.mtime < MaxMtime
    /\ \E c \in Contents : file' = [content |-> c, mtime |-> file.mtime + 1]
    /\ UNCHANGED <<store, call, decodeVars, cmdVars, eventVars, pathVars>>

\* the file is rewritten and its modification time set back to what it was
WriteFileKeepingMtime ==
    /\ \E c \in Contents \ {file.content} : file' = [file EXCEPT !.content = c]
    /\ UNCHANGED <<store, call, decodeVars, cmdVars, eventVars, pathVars>>

get_or_compute ==
    /\ LET r == GetOrCompute(file, store) IN
       /\ store' = r.entry
       /\ call' = [computed |-> r.computed, returned |-> r.returned,
                   identity |-> IdentityOf(file), prior |-> store, content |-> file.content]
    /\ UNCHANGED <<file, decodeVars, cmdVars, eventVars, pathVars>>

NextCache == WriteFile \/ WriteFileKeepingMtime \/ get_or_compute

SpecCache == InitCache /\ [][NextCache]_vars

-----------------------------------------------------------------------------
(* Events of every variant, and reading their key and dt *)

EventUniverse ==
    { ActivityRecord(JMap([header |-> JStr("Search"), title |-> JStr("Searched for x"),
                           time |-> T1])),
      ActivityRecord(JMap([header |-> JStr("Search"), title |-> JStr("Searched for x"),
                           time |-> T15, description |-> JStr("again")])),
      ActivityRecord(JMap([header |-> JStr("Maps"), title |-> JStr("Searched for x"),
                           time |-> T1])),
      LikesRecord(JMap([snippet |-> JMap([title |-> JStr("w"), publishedAt |-> T2])])),
      LikesRecord(JMap([snippet |-> JMap([title |-> JStr("w"), publishedAt |-> T1])])),
      AppInstallRecord(JMap([install |-> JMap([lastUpdateTime |-> T2,
                                               firstInstallationTime |-> T1])])),
      LocationRecord(JMap([latitudeE7 |-> JInt(377749000), longitudeE7 |-> JInt(-1224194000),
                           timestampMs |-> JInt(1500), accuracy |-> JInt(20)])),
      LocationRecord(JMap([latitudeE7 |-> JInt(377749000), longitudeE7 |-> JInt(-1224194000),
                           timestampMs |-> JInt(1500)])),
      PlaceVisitTry(JMap([location |-> GoodLocation, duration |-> GoodDuration,
                          visitConfidence |-> JInt(90)])).r,
      PlaceVisitTry(JMap([location |-> GoodLocation, duration |-> MsDuration])).r,
      ChromeRecord(JMap([title |-> JStr("u"), url |-> JStr("https://example.org/"),
                         time_usec |-> JInt(2000000)])),
      ChromeRecord(JMap([title |-> JStr("u"), url |-> JStr("https://example.org/"),
                         time_usec |-> JInt(2999999)])),
      [variant |-> "YoutubeComment", content |-> "c", dt |-> -500000, urls |-> <<>>],
      [variant |-> "YoutubeComment", content |-> "c", dt |-> 500000, urls |-> <<>>],
      [variant |-> "CSVYoutubeComment", commentId |-> "c1", channelId |-> "ch", dt |-> 1000000,
       price |-> Null, parentCommentId |-> Null, videoId |-> "v", contentJSON |-> "{}"],
      [variant |-> "CSVYoutubeLiveChat", liveChatId |-> "l1", channelId |-> "ch", dt |-> 1000000,
       price |-> Null, videoId |-> "v", contentJSON |-> "{}"],
      [variant |-> "Keep", title |-> "note", updated_dt |-> 2000000, created_dt |-> 1000000,
       listContent |-> Null, textContent |-> Null, textContentHtml |-> Null, color |-> "DEFAULT",
       annotations |-> Null, isTrashed |-> FALSE, isPinned |-> FALSE, isArchived |-> FALSE],
      [variant |-> "Keep", title |-> "note", updated_dt |-> 2000000, created_dt |-> 1200000,
       listContent |-> Null, textContent |-> Null, textContentHtml |-> Null, color |-> "DEFAULT",
       annotations |-> Null, isTrashed |-> FALSE, isPinned |-> FALSE, isArchived |-> FALSE] }

InitEvents ==
    /\ IdleDecode
    /\ IdleCmd
    /\ IdleCache
    /\ ev1 \in EventUniverse
    /\ ev2 \in EventUniverse
    /\ keys = <<>>
    /\ times = <<>>
    /\ IdlePaths

\* event.key, for both events
ReadKey ==
    /\ keys = <<>>
    /\ keys' = <<key(ev1), key(ev2)>>
    /\ UNCHANGED <<ev1, ev2, times, decodeVars, cmdVars, cacheVars, pathVars>>

\* event.dt: the datetime, or the AttributeError of a class without dt
GetDt(e) == IF HasAttr(e, "dt") THEN [ok |-> TRUE, v |-> dt(e)]
            ELSE [ok |-> FALSE, v |-> "AttributeError"]

\* event.dt, for both events
ReadDt ==
    /\ times = <<>>
    /\ times' = <<GetDt(ev1), GetDt(ev2)>>
    /\ UNCHANGED <<ev1, ev2, keys, decodeVars, cmdVars, cacheVars, pathVars>>

NextEvents == ReadKey \/ ReadDt

SpecEvents == InitEvents /\ [][NextEvents]_vars

-----------------------------------------------------------------------------
(* locales: the pattern tables and get_paths_for_functions, which          *)
(* tests/test_locale_paths.py calls; their text is not part of the sources *)
(* at hand; modelled from sections 3 and 4.3 of the specification          *)

Locales == <<"EN", "DE">>

\* LocaleRule: for each product area, the pattern of its directory name in
\* each locale, in the order of Locales
LocaleRules ==
    [Chrome |-> <<"Chrome", "Chrome">>,
     LocationHistory |-> <<"Location History", "Location History">>,
     Timeline |-> <<"Location History \\(Timeline\\)", "Location History \\(Timeline\\)">>,
     MyActivity |-> <<"My Activity", "Meine Aktivitäten">>,
     YouTube |-> <<"YouTube( and YouTube Music)?", "YouTube( und YouTube Music)?">>]
Areas == DOMAIN LocaleRules

\* the characters of each pattern, as code points
CodePoints ==
       ("Chrome" :>
          <<67, 104, 114, 111, 109, 101>>)
    @@ ("Location History" :>
          <<76, 111, 99, 97, 116, 105, 111, 110, 32, 72, 105, 115, 116, 111, 114, 121>>)
    @@ ("Location History \\(Timeline\\)" :>
          <<76, 111, 99, 97, 116, 105, 111, 110, 32, 72, 105, 115, 116, 111, 114, 121, 32, 92, 40, 84, 105, 109, 101, 108, 105, 110, 101, 92, 41>>)
    @@ ("Meine Aktivitäten" :>
          <<77, 101, 105, 110, 101, 32, 65, 107, 116, 105, 118, 105, 116, 228, 116, 101, 110>>)
    @@ ("My Activity" :>
          <<77, 121, 32, 65, 99, 116, 105, 118, 105, 116, 121>>)
    @@ ("YouTube( and YouTube Music)?" :>
          <<89, 111, 117, 84, 117, 98, 101, 40, 32, 97, 110, 100, 32, 89, 111, 117, 84, 117, 98, 101, 32, 77, 117, 115, 105, 99, 41, 63>>)
    @@ ("YouTube( und YouTube Music)?" :>
          <<89, 111, 117, 84, 117, 98, 101, 40, 32, 117, 110, 100, 32, 89, 111, 117, 84, 117, 98, 101, 32, 77, 117, 115, 105, 99, 41, 63>>)

\* the directory names a pattern matches in full
Matches(pattern) ==
    CASE pattern = "Location History \\(Timeline\\)" -> {"Location History (Timeline)"}
      [] pattern = "YouTube( and YouTube Music)?" -> {"YouTube", "YouTube and YouTube Music"}
      [] pattern = "YouTube( und YouTube Music)?" -> {"YouTube", "YouTube und YouTube Music"}
      [] OTHER -> {pattern}

\* the directory names found in takeouts
Directories ==
    {"Chrome", "Location History", "Location History (Timeline)", "My Activity",
     "Meine Aktivitäten", "YouTube", "YouTube and YouTube Music", "YouTube und YouTube Music",
     "Google Photos", "Keep"}

\* a < b for strings, by code point as Python compares them
RECURSIVE LessCodes(_, _)
LessCodes(a, b) ==
    CASE b = <<>> -> FALSE
      [] a = <<>> -> TRUE
      [] Head(a) # Head(b) -> Head(a) < Head(b)
      [] OTHER -> LessCodes(Tail(a), Tail(b))
StrLess(a, b) == LessCodes(CodePoints[a], CodePoints[b])

\* sorted(S) for a set S of strings
RECURSIVE Sorted(_)
Sorted(S) ==
    IF S = {} THEN <<>>
    ELSE LET least == CHOOSE x \in S : \A y \in S \ {x} : StrLess(x, y)
         IN <<least>> \o Sorted(S \ {least})

\* every pattern of every area and locale, in table order, repeats included
AllPatterns ==
    LET areas == SetToSeq(Areas) IN
    [i \in 1..(Len(areas) * Len(Locales)) |->
        LocaleRules[areas[((i - 1) \div Len(Locales)) + 1]][((i - 1) % Len(Locales)) + 1]]

\* the patterns as the tables list them
PathsInTableOrder == AllPatterns

\* get_paths_for_functions(): the distinct directory-name patterns, sorted
get_paths_for_functions == Sorted({AllPatterns[i] : i \in 1..Len(AllPatterns)})

\* the areas whose pattern for a locale matches a directory name
AreasMatching(loc, dir) ==
    {a \in Areas : \E i \in 1..Len(Locales) : Locales[i] = loc /\ dir \in Matches(LocaleRules[a][i])}

InitPaths ==
    /\ IdleDecode
    /\ IdleCmd
    /\ IdleCache
    /\ IdleEvents
    /\ locale \in {"EN", "DE"}
    /\ tables = "unbuilt"
    /\ matched = <<>>
    /\ paths = <<>>
    /\ ncalls = 0

\* a takeout of another locale is parsed
SetLocale ==
    /\ \E l \in {"EN", "DE"} : l # locale /\ locale' = l
    /\ UNCHANGED <<tables, matched, paths, ncalls, decodeVars, cmdVars, cacheVars, eventVars>>

\* a path is dispatched by its directory name; the tables are built on
\* first use
Dispatch ==
    /\ \E dir \in Directories : matched' = <<dir, AreasMatching(locale, dir)>>
    /\ tables' = "built"
    /\ UNCHANGED <<locale, paths, ncalls, decodeVars, cmdVars, cacheVars, eventVars>>

\* test_locale_paths, lines 4-5: a call of get_paths_for_functions()
CallGetPaths ==
    /\ ncalls < MaxCalls
    /\ paths' = get_paths_for_functions
    /\ ncalls' = ncalls + 1
    /\ UNCHANGED <<locale, tables, matched, decodeVars, cmdVars, cacheVars, eventVars>>

NextPaths == SetLocale \/ Dispatch \/ CallGetPaths

SpecPaths == InitPaths /\ [][NextPaths]_vars

-----------------------------------------------------------------------------
(* Claims about the decoders, checked under SpecDecode *)

ListDecoders == {"_parse_json_activity", "_parse_likes", "_parse_app_installs"}

\* the key of the root under which a decoder looks for its records
RootKey(d) ==
    CASE d = "_parse_location_history" -> "locations"
      [] d = "_parse_semantic_location_history" -> "timelineObjects"
      [] OTHER -> "Browser History"

\* the root is of the container type the decoder expects
ExpectedRoot(d, root) == IF d \in ListDecoders THEN IsList(root) ELSE IsDict(root)

\* the root has the shape the decoder expects: the list of records, or the
\* map holding the list of records under the decoder's key
WellShaped(d, root) ==
    IF d \in ListDecoders THEN IsList(root)
    ELSE IsDict(root) /\ Has(root, RootKey(d)) /\ IsList(root.v[RootKey(d)])

RecordsOf(d, root) == IF d \in ListDecoders THEN root.v ELSE root.v[RootKey(d)].v
FileOf(d, recs) == IF d \in ListDecoders THEN JList(recs) ELSE JMap(RootKey(d) :> JList(recs))

RunOf(d, root) ==
    CASE d = "_parse_json_activity" -> _parse_json_activity(root)
      [] d = "_parse_likes" -> _parse_likes(root)
      [] d = "_parse_app_installs" -> _parse_app_installs(root)
      [] d = "_parse_location_history" -> _parse_location_history(root)
      [] d = "_parse_semantic_location_history" -> _parse_semantic_location_history(root)
      [] OTHER -> _parse_chrome_history(root)

\* C1: when the root is a container of the type the decoder does not expect
\* (a map for a list, a list for a map), the output is exactly one error
\* value and the sequence ends there.
C1_OneErrorForBadRoot ==
    (decoder # "none" /\ Iterable(json_data) /\ ~ExpectedRoot(decoder, json_data))
        => (raised = "none" /\ Len(out) = 1 /\ IsErr(out[1]))

\* C2: consuming a decoder's output to its end never raises, whatever the
\* parsed input.
C2_NeverRaises == decoder # "none" => raised = "none"

\* a record that is a map and lacks a key the decoder requires of it
MissingRequiredKey(d, rec) ==
    /\ IsDict(rec)
    /\ CASE d = "_parse_json_activity" ->
              ~Has(rec, "snippet") /\ (~Has(rec, "time") \/ ~Has(rec, "title"))
         [] d = "_parse_location_history" ->
              \/ ~Has(rec, "latitudeE7") \/ ~Has(rec, "longitudeE7")
              \/ (~Has(rec, "timestamp") /\ ~Has(rec, "timestampMs"))
         [] d = "_parse_chrome_history" -> ~Has(rec, "time_usec")
         [] d = "_parse_semantic_location_history" ->
              /\ Has(rec, "placeVisit") /\ IsDict(Get(rec, "placeVisit"))
              /\ LET pv == Get(rec, "placeVisit") IN
                 \/ ~Has(pv, "location") \/ ~Has(pv, "duration")
                 \/ /\ IsDict(Get(pv, "location"))
                    /\ \E i \in 1..Len(_sem_required_location_keys) :
                          ~Has(Get(pv, "location"), _sem_required_location_keys[i])
         [] OTHER -> FALSE

\* a record that decodes to one event in a file of its own
DecodesAlone(d, rec) ==
    LET r == RunOf(d, FileOf(d, <<rec>>)) IN
    r.raised = "none" /\ Len(r.out) = 1 /\ IsEvent(r.out[1])

\* C3: in a well-shaped file where exactly one record misses a required key
\* and its siblings are sound, the output has exactly one error value, at
\* that record's place, and each sibling yields the event it yields alone.
C3_OneErrorPerBadRecord ==
    (decoder # "none" /\ WellShaped(decoder, json_data)) =>
        LET recs == RecordsOf(decoder, json_data) IN
        \A i \in 1..Len(recs) :
            (/\ MissingRequiredKey(decoder, recs[i])
             /\ \A j \in 1..Len(recs) : j # i => DecodesAlone(decoder, recs[j]))
            => /\ raised = "none"
               /\ Len(out) = Len(recs)
               /\ IsErr(out[i])
               /\ \A j \in 1..Len(recs) : j # i =>
                     out[j] = RunOf(decoder, FileOf(decoder, <<recs[j]>>)).out[1]

\* the logical records of a well-shaped file: its records, and for a
\* semantic-location file the timeline objects that hold a placeVisit
LogicalRecords(d, root) ==
    IF d = "_parse_semantic_location_history"
    THEN Filter(RecordsOf(d, root),
                [i \in 1..Len(RecordsOf(d, root)) |->
                    IsDict(RecordsOf(d, root)[i]) /\ Has(RecordsOf(d, root)[i], "placeVisit")])
    ELSE RecordsOf(d, root)

\* C4: a well-shaped file decoded to its end yields exactly one element per
\* logical record: no record is dropped without an error value.  (Runs that
\* end in an exception are C2's.)
C4_OneElementPerRecord ==
    (decoder # "none" /\ WellShaped(decoder, json_data) /\ raised = "none")
        => Len(out) = Len(LogicalRecords(decoder, json_data))

-----------------------------------------------------------------------------
(* Claims about merge, checked under SpecCmd *)

\* the results of all the takeout directories, in the order of the command
\* line and then of each directory
GivenResults == Chain(takeout_dir)
GivenEvents == SelectSeq(GivenResults, IsEvent)

\* the place in GivenEvents of the last, and of the first, event that
\* merging takes for e
LastOf(e) == CHOOSE i \in 1..Len(GivenEvents) :
                /\ SameEvent(GivenEvents[i], e)
                /\ \A j \in (i + 1)..Len(GivenEvents) : ~SameEvent(GivenEvents[j], e)
FirstOf(e) == CHOOSE i \in 1..Len(GivenEvents) :
                /\ SameEvent(GivenEvents[i], e)
                /\ \A j \in 1..(i - 1) : ~SameEvent(GivenEvents[j], e)

Count(seq, x) == Cardinality({i \in 1..Len(seq) : seq[i] = x})

-----------------------------------------------------------------------------
(* Claims about the cache, checked under SpecCache *)

\* C7: a call returns the stored sequence, without computing, exactly when
\* the stored entry was computed for the file's identity at the call;
\* otherwise it computes, replaces the whole entry and returns the new
\* result.  So the entry left and the result returned are always those of
\* the identity at the call.
C7_HitIffIdentityUnchanged ==
    call # NoCall =>
        /\ call.computed = ~(call.prior # NoEntry /\ call.prior.identity = call.identity)
        /\ ~call.computed => (call.returned = call.prior.results /\ store = call.prior)
        /\ call.computed =>
              /\ call.returned = _parse_json_activity(call.content).out
              /\ store = [identity |-> call.identity, results |-> call.returned]
        /\ store.identity = call.identity

\* a hit after the file changed and was computed anew: the entry of the
\* earlier identity is gone, the call returns the stored sequence
C7_Witness ==
    /\ call # NoCall
    /\ ~call.computed
    /\ file.mtime > 0
    /\ call.identity = IdentityOf(file)
    /\ call.returned = store.results
    /\ store.identity[3] = file.mtime

-----------------------------------------------------------------------------
(* Claims about the events, checked under SpecEvents *)

\* the fields the key of an event reads: the datetime, and the others
KeyTime(e) ==
    CASE e.variant = "Activity" -> e.time
      [] e.variant = "PlayStoreAppInstall" -> e.lastUpdateTime
      [] e.variant = "PlaceVisit" -> e.startTime
      [] e.variant = "Keep" -> e.created_dt
      [] OTHER -> e.dt
KeyOthers(e) ==
    CASE e.variant = "Activity" -> <<e.header, e.title>>
      [] e.variant = "Location" -> <<e.lat, e.lng, e.accuracy>>
      [] e.variant = "PlaceVisit" -> <<e.lat, e.lng, e.visitConfidence>>
      [] e.variant = "ChromeHistory" -> <<e.url>>
      [] OTHER -> <<>>
SameKeyFields(a, b) == KeyOthers(a) = KeyOthers(b) /\ KeyTime(a) = KeyTime(b)

\* C8, as claimed: two events of one variant have equal keys when the
\* fields the key reads are equal, and different keys when any of them
\* differs, the datetime included.
C8_KeyInjective ==
    (keys # <<>> /\ ev1.variant = ev2.variant) =>
        ((keys[1] = keys[2]) <=> SameKeyFields(ev1, ev2))

\* C8, amended: two events of one variant have equal keys exactly when the
\* other fields the key reads are equal and the datetimes have the same
\* whole second, int(timestamp()), which truncates toward zero.
C8_KeyInjectiveToTheSecond ==
    (keys # <<>> /\ ev1.variant = ev2.variant) =>
        /\ SameKeyFields(ev1, ev2) => keys[1] = keys[2]
        /\ (keys[1] = keys[2]) <=>
              /\ KeyOthers(ev1) = KeyOthers(ev2)
              /\ IntTimestamp(KeyTime(ev1)) = IntTimestamp(KeyTime(ev2))

\* two Activity events less than a second apart whose keys were read and
\* are equal
C8_Witness ==
    /\ keys # <<>>
    /\ ev1.variant = "Activity" /\ ev2.variant = "Activity"
    /\ ev1.time # ev2.time
    /\ ev2.time - ev1.time < 1000000 /\ ev1.time - ev2.time < 1000000
    /\ keys[1] = keys[2]

\* C9: every variant of the union has a key and a dt, and reading them
\* never fails.
C9_KeyAndDtOnEveryVariant ==
    /\ keys # <<>> => (HasAttr(ev1, "key") /\ HasAttr(ev2, "key"))
    /\ times # <<>> => (times[1].ok /\ times[2].ok)

-----------------------------------------------------------------------------
(* Claims about the directory-name patterns, checked under SpecPaths *)

\* C10: every call of get_paths_for_functions(), in any state of the
\* dispatcher, returns the seven patterns, each once, in this order.
C10_PathsForFunctions ==
    ncalls > 0 =>
        paths = <<"Chrome", "Location History", "Location History \\(Timeline\\)",
                  "Meine Aktivitäten", "My Activity", "YouTube( and YouTube Music)?",
                  "YouTube( und YouTube Music)?">>

\* a second call, after the tables were built for the other locale
C10_Witness ==
    /\ ncalls >= 2
    /\ tables = "built"
    /\ locale = "DE"
    /\ Len(paths) = 7

-----------------------------------------------------------------------------
(* Claims about the fields of the decoded events, checked under SpecDecode *)

\* the degrees an E7 integer stands for: its exact quotient by 10^7
Degrees(e7) == [num |-> e7.v, den |-> 10000000]

\* the events of a run, in the order they were yielded
EventsOf(o) == SelectSeq(o, IsEvent)

\* the records of a well-shaped location file that are decoded to an
\* event, in file order
LocationSources(root) ==
    LET recs == RecordsOf("_parse_location_history", root) IN
    Filter(recs, [i \in 1..Len(recs) |->
                     IsDict(recs[i]) /\ IsEvent(LocationRecord(recs[i]))])

\* the placeVisit maps of a well-shaped semantic-location file that are
\* decoded to an event, in file order
PlaceVisitSources(root) ==
    LET recs == RecordsOf("_parse_semantic_location_history", root)
        keep == [i \in 1..Len(recs) |->
                    /\ TimelineStep(recs[i]).k = "yield"
                    /\ IsEvent(TimelineStep(recs[i]).r)]
    IN Filter([i \in 1..Len(recs) |-> IF keep[i] THEN Get(recs[i], "placeVisit") ELSE Null],
              keep)

\* lat and lng of e are the degrees of latitudeE7 and longitudeE7 of m
CoordinatesFrom(e, m) ==
    /\ e.lat = Degrees(m.v["latitudeE7"])
    /\ e.lng = Degrees(m.v["longitudeE7"])

\* a PlaceVisit event against the placeVisit map it was decoded from
PlaceVisitFrom(e, pv) ==
    LET others == PyIter(GetD(pv, "otherCandidateLocations", EmptyList)) IN
    /\ CoordinatesFrom(e, pv.v["location"])
    /\ e.centerLat = (IF Has(pv, "centerLatE7") THEN Degrees(pv.v["centerLatE7"]) ELSE Null)
    /\ e.centerLng = (IF Has(pv, "centerLngE7") THEN Degrees(pv.v["centerLngE7"]) ELSE Null)
    /\ Len(e.otherCandidateLocations) = Len(others)
    /\ \A j \in 1..Len(others) : CoordinatesFrom(e.otherCandidateLocations[j], others[j])

\* C11: every emitted Location has lat = latitudeE7 / 10^7 and
\* lng = longitudeE7 / 10^7 of its record, sign kept and the two not
\* exchanged; every emitted PlaceVisit has the same of its location, its
\* centerLat and centerLng from centerLatE7 and centerLngE7, and each of its
\* candidate locations from that candidate's own pair.
C11_E7Coordinates ==
    /\ (decoder = "_parse_location_history" /\ WellShaped(decoder, json_data)) =>
          LET src == LocationSources(json_data)
              evs == EventsOf(out)
          IN /\ Len(evs) <= Len(src)
             /\ raised = "none" => Len(evs) = Len(src)
             /\ \A i \in 1..Len(evs) : CoordinatesFrom(evs[i], src[i])
    /\ (decoder = "_parse_semantic_location_history" /\ WellShaped(decoder, json_data)) =>
          LET src == PlaceVisitSources(json_data)
              evs == EventsOf(out)
          IN /\ Len(evs) <= Len(src)
             /\ raised = "none" => Len(evs) = Len(src)
             /\ \A i \in 1..Len(evs) : PlaceVisitFrom(evs[i], src[i])

\* a semantic-location file of two visits was decoded: one has a centre,
\* the other a candidate location, with a positive latitude beside a
\* negative longitude and a negative latitude beside a positive longitude
C11_Witness ==
    /\ decoder = "_parse_semantic_location_history"
    /\ raised = "none"
    /\ Len(out) = 2
    /\ \A i \in 1..2 : IsEvent(out[i]) /\ out[i].lat.num > 0 /\ out[i].lng.num < 0
    /\ \E i \in 1..2 : out[i].centerLat # Null /\ out[i].centerLng # Null
    /\ \E i \in 1..2 :
          /\ Len(out[i].otherCandidateLocations) = 1
          /\ out[i].otherCandidateLocations[1].lat.num < 0
          /\ out[i].otherCandidateLocations[1].lng.num > 0

\* the records of a well-shaped activity file that are decoded to an event,
\* in file order
ActivitySources(root) ==
    LET recs == RecordsOf("_parse_json_activity", root) IN
    Filter(recs, [i \in 1..Len(recs) |-> IsEvent(ActivityRecord(recs[i]))])

\* the records of a well-shaped Chrome history file that are decoded to an
\* event, in file order
ChromeSources(root) ==
    LET recs == RecordsOf("_parse_chrome_history", root) IN
    Filter(recs, [i \in 1..Len(recs) |-> IsEvent(ChromeRecord(recs[i]))])

\* the map an activity record's fields are read from: its snippet if it has
\* one, else the record
InnerBlob(rec) == IF Has(rec, "snippet") THEN rec.v["snippet"] ELSE rec

\* the raw subtitles of an activity record that become Subtitles
RawSubtitles(rec) ==
    LET items == PyIter(GetD(rec, "subtitles", EmptyList)) IN
    Filter(items, [i \in 1..Len(items) |-> IsDict(items[i]) /\ Has(items[i], "name")])

\* the URL fields of an Activity against the record it was decoded from
ActivityUrlsFrom(e, rec) ==
    LET subs == RawSubtitles(rec)
        infos == PyIter(GetD(InnerBlob(rec), "locationInfos", EmptyList))
    IN /\ e.titleUrl = convert_to_https_opt(Get(InnerBlob(rec), "titleUrl"))
       /\ Len(e.subtitles) = Len(subs)
       /\ \A j \in 1..Len(subs) :
             e.subtitles[j].url = convert_to_https_opt(Get(subs[j], "url"))
       /\ Len(e.locationInfos) = Len(infos)
       /\ \A j \in 1..Len(infos) :
             /\ e.locationInfos[j].url = convert_to_https_opt(Get(infos[j], "url"))
             /\ e.locationInfos[j].sourceUrl = convert_to_https_opt(Get(infos[j], "sourceUrl"))

\* C12: every URL field of every emitted event (Activity.titleUrl,
\* Subtitles.url, LocationInfo.url, LocationInfo.sourceUrl,
\* ChromeHistory.url) is convert_to_https_opt of the raw value of its
\* record, an absent raw value giving an absent field.
C12_UrlsNormalized ==
    /\ (decoder = "_parse_json_activity" /\ WellShaped(decoder, json_data)) =>
          LET src == ActivitySources(json_data)
              evs == EventsOf(out)
          IN /\ Len(evs) = Len(src)
             /\ \A i \in 1..Len(evs) : ActivityUrlsFrom(evs[i], src[i])
    /\ (decoder = "_parse_chrome_history" /\ WellShaped(decoder, json_data)) =>
          LET src == ChromeSources(json_data)
              evs == EventsOf(out)
          IN /\ Len(evs) <= Len(src)
             /\ \A i \in 1..Len(evs) :
                   evs[i].url = convert_to_https_opt(Get(src[i], "url"))

\* the fields of Activity e other than time and subtitles are read from the
\* map inner, and its header is header
ActivityFrom(e, inner, header) ==
    /\ e.variant = "Activity"
    /\ e.header = header
    /\ e.title = Get(inner, "title")
    /\ e.titleUrl = convert_to_https_opt(Get(inner, "titleUrl"))
    /\ e.description = Get(inner, "description")
    /\ e.details = DetailsOf(GetD(inner, "details", EmptyList))
    /\ e.locationInfos = LocationInfosOf(GetD(inner, "locationInfos", EmptyList))
    /\ e.products = GetD(inner, "products", EmptyList)

\* an activity file of map records was decoded to its end, one element for
\* each record, each the element the record gives in a file of its own
EachRecordAsAlone ==
    LET recs == RecordsOf(decoder, json_data) IN
    /\ raised = "none"
    /\ Len(out) = Len(recs)
    /\ \A i \in 1..Len(recs) :
          out[i] = _parse_json_activity(JList(<<recs[i]>>)).out[1]

\* C13 as stated: the schema is decided for each record by its 'snippet'
\* key; with it the Activity has header 'YouTube' and title, time (from
\* 'publishedAt') and every other field from the snippet; without it the
\* header and time are those under the record's own 'header' and 'time'
\* keys; and every record of a mixed file decodes as it does alone.
C13_SchemaPerRecordAsStated ==
    (decoder = "_parse_json_activity" /\ WellShaped(decoder, json_data)) =>
        LET recs == RecordsOf(decoder, json_data) IN
        /\ EachRecordAsAlone
        /\ \A i \in 1..Len(recs) : (IsDict(recs[i]) /\ IsEvent(out[i])) =>
              IF Has(recs[i], "snippet")
              THEN LET snippet == recs[i].v["snippet"] IN
                   /\ ActivityFrom(out[i], snippet, JStr("YouTube"))
                   /\ out[i].time = parse_json_utc_date(Get(snippet, "publishedAt"))
                   /\ out[i].subtitles = SubtitlesOf(GetD(snippet, "subtitles", EmptyList))
              ELSE /\ ActivityFrom(out[i], recs[i], Get(recs[i], "header"))
                   /\ out[i].time = parse_json_utc_date(Get(recs[i], "time"))
                   /\ out[i].subtitles = SubtitlesOf(GetD(recs[i], "subtitles", EmptyList))

\* C13: the same, except that the subtitles are always those of the record
\* itself, never of its snippet, and that a record with neither 'snippet'
\* nor 'header' whose title starts with "Visited view-source:" has the
\* header 'Chrome'.
C13_SchemaPerRecord ==
    (decoder = "_parse_json_activity" /\ WellShaped(decoder, json_data)) =>
        LET recs == RecordsOf(decoder, json_data) IN
        /\ EachRecordAsAlone
        /\ \A i \in 1..Len(recs) : (IsDict(recs[i]) /\ IsEvent(out[i])) =>
              /\ out[i].subtitles = SubtitlesOf(GetD(recs[i], "subtitles", EmptyList))
              /\ IF Has(recs[i], "snippet")
                 THEN LET snippet == recs[i].v["snippet"] IN
                      /\ ActivityFrom(out[i], snippet, JStr("YouTube"))
                      /\ out[i].time = parse_json_utc_date(Get(snippet, "publishedAt"))
                 ELSE /\ out[i].time = parse_json_utc_date(Get(recs[i], "time"))
                      /\ IF Get(recs[i], "header") # Null
                         THEN ActivityFrom(out[i], recs[i], Get(recs[i], "header"))
                         ELSE /\ ActivityFrom(out[i], recs[i], JStr("Chrome"))
                              /\ StartsWithViewSource(Get(recs[i], "title").v)

\* a file mixing the two shapes was decoded: a record with its own header
\* first, then a record with a snippet, both to events
C13_Witness ==
    /\ decoder = "_parse_json_activity"
    /\ WellShaped(decoder, json_data)
    /\ Len(out) = 2
    /\ IsEvent(out[1]) /\ IsEvent(out[2])
    /\ ~Has(json_data.v[1], "snippet") /\ Has(json_data.v[1], "header")
    /\ Has(json_data.v[2], "snippet")
    /\ out[1].header # JStr("YouTube") /\ out[2].header = JStr("YouTube")

-----------------------------------------------------------------------------
(* Claims about the timestamps of the decoded events, checked under        *)
(* SpecDecode                                                              *)

\* the instant a millisecond epoch stands for
MillisInstant(x) == x.v * 1000
\* the instant an ISO-8601 text with the UTC designator stands for
IsoInstant(x) == IsoTable[x.v]

\* t is what the timestamp field k of the map d decodes to: the
\* millisecond epoch under k+'Ms' if d has that key, else the ISO-8601
\* text under k
TimestampFrom(t, d, k, kMs) ==
    IF Has(d, kMs) THEN t = MillisInstant(d.v[kMs])
    ELSE Has(d, k) /\ t = IsoInstant(d.v[k])

\* a well-shaped semantic-location file none of whose records is skipped
NothingSkipped ==
    /\ raised = "none"
    /\ Len(out) = Len(RecordsOf(decoder, json_data))

=============================================================================
